---- MODULE Spec2Model ----
(***************************************************************************)
(* MERIDIAN frontend (src/frontend/app.js): the live-progress client.      *)
(*                                                                         *)
(* The page is one cooperative JavaScript context.  Its state is the set   *)
(* of script globals (completedAgents, _lastInvestigationData, the         *)
(* selection and compare globals) and the parts of the document the        *)
(* handlers read and write.  Every handler runs to completion or to its    *)
(* next await; an await is a message in flight.                            *)
(*                                                                         *)
(* Scores are fixed-point: the integer n stands for the score n/100, so    *)
(* 7.5 is 750 and 8.9 is 890.  Undefined stands for a missing field.       *)
(***************************************************************************)
EXTENDS Integers, Sequences, FiniteSets, TLC

VARIABLES
    page,       \* script globals and document state of the live session
    streams,    \* per runInvestigation call: position of its async body
    script,     \* the events a scripted stream carries, in order
    at,         \* events of script already applied
    text,       \* the response body of the stream being decoded
    pos,        \* characters of text already delivered by reader.read()
    buffer,     \* runInvestigation's local `buffer`
    handled,    \* events passed to handleEvent by the read loop, in order
    rdone,      \* the read loop has seen result.done
    midMarker,  \* history: some chunk ended inside a 'data: ' marker
    score,      \* the overall_risk_score of the stored record being loaded
    ctl,        \* selection and compare globals, buttons, comparison view
    grid,       \* the cards of the history grid and what their handlers hold
    store,      \* the investigations the server holds, in list order
    pending,    \* requests in flight: awaits that have not resumed
    timers,     \* the live intervals of setGauge, oldest first
    riskScore,  \* the text of the riskScore element
    network,    \* the networkGraph container and what the last call drew
    news,       \* the news watch: its globals, timers, requests and panel
    stat        \* one statistics counter and the interval animateNumber gave it

sessVars == <<page, streams>>
decVars  == <<text, pos, buffer, handled, rdone, midMarker>>
scoVars  == <<score>>
histVars == <<ctl, grid, store, pending>>
runVars  == <<script, at>>
gaugeVars == <<timers, riskScore>>
netVars == <<network>>
newsVars == <<news>>
statVars == <<stat>>
vars == <<page, streams, script, at, text, pos, buffer, handled, rdone, midMarker,
         score, ctl, grid, store, pending, timers, riskScore, network, news, stat>>

----------------------------------------------------------------------------
(* Bounds of the exploration *)

MaxCompleted == 3
MaxStreams == 1
MaxLines == 2
MaxRecords == 3
MaxPending == 2

----------------------------------------------------------------------------
(* Program constants *)

TOTAL_AGENTS == 7
VISIBLE_AGENTS == 6
Undefined == -1

T_GREEN == 250
T_YELLOW == 500
T_ORANGE == 750
REC_REJECT == 750
REC_INVESTIGATE == 500
REC_CONDITIONAL == 250
SCORE_TOP == 1000

Synthesis == "Risk Synthesis"
NoAgent == "<undefined>"

\* The six agent cards of the document, by element-id suffix.
CardIds ==
    {"entity-discovery", "financial-signal", "legal-intelligence",
     "executive-background", "sentiment-narrative", "geo-jurisdiction"}

Specialists ==
    {"Entity Discovery", "Financial Signal", "Legal Intelligence",
     "Executive Background", "Sentiment & Narrative", "Geo & Jurisdiction"}

\* name.toLowerCase().replace(/ & /g, '-').replace(/ /g, '-'), on the agent
\* names the streams of this model carry.  It is not injective: a name that
\* differs from a specialist's only in case maps to the same card.
agentId(name) ==
    CASE name = "Entity Discovery"      -> "entity-discovery"
      [] name = "entity discovery"      -> "entity-discovery"
      [] name = "Financial Signal"      -> "financial-signal"
      [] name = "Legal Intelligence"    -> "legal-intelligence"
      [] name = "Executive Background"  -> "executive-background"
      [] name = "Sentiment & Narrative" -> "sentiment-narrative"
      [] name = "Geo & Jurisdiction"    -> "geo-jurisdiction"
      [] name = "Risk Synthesis"        -> "risk-synthesis"
      [] name = "Compliance Check"      -> "compliance-check"
      [] OTHER                          -> "<none>"

\* document.getElementById('status-' + id) and its siblings exist for the cards.
HasCard(name) == name # NoAgent /\ agentId(name) \in CardIds

Min(a, b) == IF a < b THEN a ELSE b

----------------------------------------------------------------------------
(* Events: the parsed payload of one frame.  A field the payload does not  *)
(* carry is Undefined / NoAgent / "".                                      *)

Ev(kind, agent, rs, fnd, overall, level, rec) ==
    [event |-> kind, agent |-> agent, risk_score |-> rs, findings |-> fnd,
     overall_risk_score |-> overall, risk_level |-> level,
     proceed_recommendation |-> rec]

EvStarted         == Ev("investigation_started", NoAgent, Undefined, "", Undefined, "", "")
EvAgentStarted(a) == Ev("agent_started", a, Undefined, "", Undefined, "", "")
EvThinking(a)     == Ev("agent_thinking", a, Undefined, "", Undefined, "", "")
EvAgentComplete(a, rs, fnd) == Ev("agent_complete", a, rs, fnd, Undefined, "", "")
EvComplete(overall, level, rec) ==
    Ev("investigation_complete", NoAgent, Undefined, "", overall, level, rec)
EvStreamEnd       == Ev("stream_end", NoAgent, Undefined, "", Undefined, "", "")
EvOther           == Ev("heartbeat", NoAgent, Undefined, "", Undefined, "", "")

NoData == [kind |-> "none", overall_risk_score |-> Undefined, risk_level |-> "",
           proceed_recommendation |-> "", target |-> ""]

----------------------------------------------------------------------------
(* Pure helpers of the page *)

\* Mutant: the break points belong to the lower tier.
riskColorInclusive(s) ==
    IF s <= T_GREEN THEN "green"
    ELSE IF s <= T_YELLOW THEN "yellow"
    ELSE IF s <= T_ORANGE THEN "orange"
    ELSE "red"

\* riskColor: the colour tier of a score.
riskColor(s) ==
    IF s < T_GREEN THEN "green"
    ELSE IF s < T_YELLOW THEN "yellow"
    ELSE IF s < T_ORANGE THEN "orange"
    ELSE "red"

\* x || 0 on a score: a missing score and 0 both give 0.
OrZero(s) == IF s = Undefined THEN 0 ELSE s

\* Mutant: strict comparisons, the boundary values fall to the lower tier.
DeriveRecommendationStrict(s) ==
    IF s # Undefined /\ s > REC_REJECT THEN "REJECT"
    ELSE IF s # Undefined /\ s > REC_INVESTIGATE THEN "INVESTIGATE_FURTHER"
    ELSE IF s # Undefined /\ s > REC_CONDITIONAL THEN "CONDITIONAL"
    ELSE "APPROVE"

\* The ternary chain of loadPastInvestigation.  A missing score compares
\* false with every threshold.
DeriveRecommendation(s) ==
    IF s # Undefined /\ s >= REC_REJECT THEN "REJECT"
    ELSE IF s # Undefined /\ s >= REC_INVESTIGATE THEN "INVESTIGATE_FURTHER"
    ELSE IF s # Undefined /\ s >= REC_CONDITIONAL THEN "CONDITIONAL"
    ELSE "APPROVE"

\* recMap[proceed] || recMap['INVESTIGATE_FURTHER'], after toUpperCase().
UpperCase(r) ==
    CASE r = "reject" -> "REJECT"
      [] r = "approve" -> "APPROVE"
      [] OTHER -> r

RecCls(r) ==
    CASE UpperCase(r) = "REJECT" -> "reject"
      [] UpperCase(r) = "INVESTIGATE_FURTHER" -> "investigate"
      [] UpperCase(r) = "CONDITIONAL" -> "conditional"
      [] UpperCase(r) = "APPROVE" -> "approve"
      [] OTHER -> "investigate"

----------------------------------------------------------------------------
(* The page: script globals and the document state the session writes *)

\* The state the script finds when it is loaded.
PageInit ==
    [completedAgents |-> 0,
     indicator  |-> [c \in CardIds |-> "waiting"],
     cardClass  |-> [c \in CardIds |-> {}],
     barScore   |-> [c \in CardIds |-> 0],
     findings   |-> [c \in CardIds |-> "Waiting..."],
     thought    |-> [c \in CardIds |-> FALSE],
     counter    |-> 0,
     counterGreen |-> FALSE,
     progress   |-> <<0, 1>>,
     progressText |-> <<>>,
     progressVisible |-> FALSE,
     statusText |-> "",
     statusDot  |-> {},
     searchDisabled |-> FALSE,
     lastData   |-> NoData,
     badge      |-> "PENDING",
     gauge      |-> Undefined,
     recCls     |-> "",
     recVisible |-> FALSE,
     targetName |-> ""]

\* updateProgress(completed, total, text): the bar shows completed/total.
updateProgress(p, completed, total, txt) ==
    [p EXCEPT !.progress = <<completed, total>>, !.progressText = txt]

\* updateAgentCounter: 'n / 6 complete', n capped at 6.
updateAgentCounter(p) ==
    LET visible == Min(p.completedAgents, VISIBLE_AGENTS) IN
    [p EXCEPT !.counter = visible,
              !.counterGreen = (p.counterGreen \/ visible = VISIBLE_AGENTS)]

\* resetAgents
resetAgents(p) ==
    [p EXCEPT !.completedAgents = 0,
              !.indicator = [c \in CardIds |-> "waiting"],
              !.cardClass = [c \in CardIds |-> {}],
              !.barScore  = [c \in CardIds |-> 0],
              !.findings  = [c \in CardIds |-> "Waiting..."],
              !.thought   = [c \in CardIds |-> FALSE],
              !.badge = "PENDING",
              !.gauge = Undefined,
              !.recCls = "",
              !.recVisible = FALSE,
              !.progress = <<0, 1>>,
              !.progressText = <<"Starting investigation...">>,
              !.progressVisible = TRUE,
              !.counter = 0,
              !.counterGreen = FALSE]

\* updateAgentCard(agentName, data), for a name that is a string.
updateAgentCard(p, name, rs, fnd) ==
    IF ~HasCard(name) THEN p
    ELSE LET id == agentId(name) IN
         [p EXCEPT !.indicator[id] = "complete",
                   !.cardClass[id] = (@ \ {"running"}) \cup {"complete"},
                   !.barScore[id]  = IF rs # Undefined THEN rs ELSE @,
                   !.findings[id]  = IF fnd # "" THEN fnd ELSE @]

\* markAgentRunning(agentName), for a name that is a string.
markAgentRunning(p, name) ==
    IF ~HasCard(name) THEN p
    ELSE LET id == agentId(name) IN
         [p EXCEPT !.indicator[id] = "running",
                   !.cardClass[id] = @ \cup {"running"}]

\* Mutant: showing a thought also marks the agent running.
showAgentThoughtRunning(p, name) ==
    IF ~HasCard(name) THEN p
    ELSE [markAgentRunning(p, name) EXCEPT !.thought[agentId(name)] = TRUE]

\* showAgentThought(agentName, thought), for a name that is a string.
showAgentThought(p, name) ==
    IF ~HasCard(name) THEN p
    ELSE [p EXCEPT !.thought[agentId(name)] = TRUE]

\* A proceed_recommendation that is truthy and not a string (a number, an
\* object): it has no toUpperCase.
NonStringRec == "<number>"

\* showFinalResults(data).  (data.proceed_recommendation || '').toUpperCase()
\* throws on a value that is not a string: the function ends there, after
\* the progress, the badge and the gauge have been written.
showFinalResults(p, overall, level, rec) ==
    LET head == [p EXCEPT !.progressVisible = FALSE,
                          !.badge = level,
                          !.gauge = overall]
    IN IF rec = NonStringRec THEN head
       ELSE [head EXCEPT !.recCls = RecCls(rec), !.recVisible = TRUE]

\* handleEvent(event).  agentId(undefined) throws: the handler stops at the
\* call that throws and keeps what it wrote before it.
handleEvent(p, e) ==
    CASE e.event = "investigation_started" ->
            updateProgress(p, 0, TOTAL_AGENTS, <<"Running Entity Discovery agent...">>)
      [] e.event = "agent_started" ->
            IF e.agent = NoAgent THEN p
            ELSE updateProgress(markAgentRunning(p, e.agent), p.completedAgents,
                    TOTAL_AGENTS,
                    IF e.agent # Synthesis THEN <<"Running", e.agent>>
                    ELSE <<"Synthesizing risk assessment...">>)
      [] e.event = "agent_complete" ->
            LET q == [p EXCEPT !.completedAgents = @ + 1] IN
            IF e.agent = Synthesis
            THEN updateProgress(q, TOTAL_AGENTS, TOTAL_AGENTS,
                    <<"Risk synthesis complete. Finalizing report...">>)
            ELSE IF e.agent = NoAgent THEN q
            ELSE updateProgress(
                    updateAgentCounter(
                        updateAgentCard(q, e.agent, e.risk_score, e.findings)),
                    q.completedAgents, TOTAL_AGENTS, <<e.agent, "complete">>)
      [] e.event = "investigation_complete" ->
            LET q == [p EXCEPT !.lastData =
                        [kind |-> "live",
                         overall_risk_score |-> e.overall_risk_score,
                         risk_level |-> e.risk_level,
                         proceed_recommendation |-> e.proceed_recommendation,
                         target |-> ""]]
                r == showFinalResults(q, e.overall_risk_score, e.risk_level,
                                      e.proceed_recommendation)
            IN IF e.proceed_recommendation = NonStringRec THEN r
               ELSE [r EXCEPT !.statusDot = @ \ {"running"}, !.statusText = "Complete"]
      [] e.event = "agent_thinking" ->
            IF e.agent = NoAgent THEN p ELSE showAgentThought(p, e.agent)
      [] OTHER -> p

----------------------------------------------------------------------------
(* The live session: runInvestigation and the events of its stream *)

Targets == {"Nexus Global Holdings", "Acme"}

\* What the streams of the session specification carry.
StreamAgents == {"Entity Discovery", Synthesis, "Compliance Check", NoAgent}
AgentScores == {Undefined, 900}
FindingTexts == {"F1"}

StreamEvents ==
    {EvStarted, EvStreamEnd, EvOther}
    \cup {EvAgentStarted(a) : a \in StreamAgents}
    \cup {EvThinking(a) : a \in {"Entity Discovery", NoAgent}}
    \cup {EvAgentComplete(a, rs, f) :
             a \in StreamAgents, rs \in AgentScores, f \in FindingTexts}
    \cup {EvComplete(890, "CRITICAL", "REJECT")}

\* The catch block of runInvestigation.
catchError(p) ==
    updateProgress(
        [p EXCEPT !.statusDot = (@ \ {"running"}) \cup {"error"},
                  !.statusText = "Error"],
        0, 1, <<"Error">>)

\* Mutant: the finally block is missing.
finallyBlockSkipped(p) == p

\* The finally block of runInvestigation.
finallyBlock(p) == [p EXCEPT !.searchDisabled = FALSE]

\* The page after the synchronous head of runInvestigation(target).
started(p, t) ==
    updateProgress(
        [resetAgents(p) EXCEPT
            !.targetName = t,
            !.statusDot = @ \cup {"running"},
            !.statusText = "Investigating...",
            !.searchDisabled = TRUE],
        0, TOTAL_AGENTS, <<"Investigating", t>>)

\* runInvestigation(target) up to its first await (the fetch).
RunInvestigation(k, t) ==
    /\ streams[k] = "unused"
    /\ \A j \in 1..(k - 1) : streams[j] # "unused"
    /\ page' = started(page, t)
    /\ streams' = [streams EXCEPT ![k] = "fetching"]

\* The fetch resolves (with any status code): the read loop starts.
FetchResolve(k) ==
    /\ streams[k] = "fetching"
    /\ streams' = [streams EXCEPT ![k] = "open"]
    /\ UNCHANGED page

\* The fetch rejects: catch, then finally.
FetchReject(k) ==
    /\ streams[k] = "fetching"
    /\ streams' = [streams EXCEPT ![k] = "settled"]
    /\ page' = finallyBlock(catchError(page))

\* One payload line of stream k is parsed and passed to handleEvent.
HandleEvent(k, e) ==
    /\ streams[k] = "open"
    /\ e.event = "agent_complete" => page.completedAgents < MaxCompleted
    /\ page' = handleEvent(page, e)
    /\ UNCHANGED streams

\* reader.read() reports done: the loop breaks, finally runs.
ReadDone(k) ==
    /\ streams[k] = "open"
    /\ streams' = [streams EXCEPT ![k] = "settled"]
    /\ page' = finallyBlock(page)

\* reader.read() rejects: catch, then finally.
ReadError(k) ==
    /\ streams[k] = "open"
    /\ streams' = [streams EXCEPT ![k] = "settled"]
    /\ page' = finallyBlock(catchError(page))

----------------------------------------------------------------------------
(* Historical records *)

\* A stored record: target, overall score, level and the names of the agents
\* whose findings it stores.
PastRecords ==
    [target_name : {"Acme"},
     overall_risk_score : {Undefined, 750},
     risk_level : {"HIGH"},
     agent_findings : {<<>>, <<"Entity Discovery", Synthesis>>}]

RECURSIVE applyFindings(_, _)
\* The forEach of loadPastInvestigation over inv.agent_findings.
applyFindings(p, fs) ==
    IF fs = <<>> THEN p
    ELSE IF Head(fs) = Synthesis THEN applyFindings(p, Tail(fs))
    ELSE applyFindings(
            [updateAgentCard(p, Head(fs), 500, "F1") EXCEPT !.completedAgents = @ + 1],
            Tail(fs))

\* loadPastInvestigation(inv)
loadPastInvestigation(p, inv) ==
    LET a == [resetAgents(p) EXCEPT !.targetName = inv.target_name,
                                    !.progressVisible = FALSE]
        b == updateAgentCounter(applyFindings(a, inv.agent_findings))
        rec == DeriveRecommendation(inv.overall_risk_score)
        c == [b EXCEPT !.lastData =
                 [kind |-> "past",
                  overall_risk_score |-> OrZero(inv.overall_risk_score),
                  risk_level |-> inv.risk_level,
                  proceed_recommendation |-> rec,
                  target |-> inv.target_name]]
    IN showFinalResults(c, OrZero(inv.overall_risk_score), inv.risk_level, rec)

\* A click on a history card in normal mode.
LoadPast(inv) ==
    /\ page' = loadPastInvestigation(page, inv)
    /\ UNCHANGED streams

----------------------------------------------------------------------------
(* Specification of the live session *)

\* The script's globals and the controls of the history section at load.
CtlInit ==
    [selectMode |-> FALSE,
     selectedIds |-> {},
     compareMode |-> FALSE,
     compareSelected |-> <<>>,
     compareInvestigations |-> <<>>,
     btnSelect |-> TRUE,
     btnDelete |-> FALSE,
     btnCancel |-> FALSE,
     btnCompare |-> TRUE,
     selectedCount |-> 0,
     compareSection |-> FALSE,
     compareLeft |-> 0,
     compareRight |-> 0]

\* kind: which click handler the cards carry (the handler of a "normal" card
\* is LoadPast of the session);  data: the list the cards were
\* built from; selected: the cards with the class 'selected'.
GridInit == [kind |-> "initial", data |-> <<>>, selected |-> {}]

PendingInit == [history |-> 0, compare |-> 0, bulk |-> {}, bulkBusy |-> FALSE,
                clear |-> FALSE]

HistIdle ==
    /\ ctl = CtlInit
    /\ grid = GridInit
    /\ store = <<>>
    /\ pending = PendingInit

RunIdle == script = <<>> /\ at = 0
DecIdle == text = <<>> /\ pos = 0 /\ buffer = <<>> /\ handled = <<>> /\ rdone = FALSE
           /\ midMarker = FALSE
ScoIdle == score = 0

\* No interval is live and the riskScore element shows '--' (Dashes).
Dashes == -2
GaugeIdle == timers = <<>> /\ riskScore = Dashes

\* renderNetworkGraph has not been called: the container is as the document
\* declares it.
NoFinding == [named |-> FALSE, subs |-> <<>>, related |-> <<>>, clientWidth |-> 0]
NetworkInit ==
    [finding |-> NoFinding, calls |-> 0, display |-> "", content |-> "",
     nodes |-> <<>>, edges |-> <<>>, width |-> 0, height |-> 0, radius100 |-> 0]
NetIdle == network = NetworkInit

\* No watch has been started: the globals of app.js:960-962, no interval,
\* no request in flight, an empty panel.
NoTarget == "<none>"
WatchTargets == {"Acme", "Nexus Global Holdings"}
NewsInit ==
    [live |-> <<>>, handle |-> 0, target |-> NoTarget, lastCount |-> 0,
     inflight |-> [t \in WatchTargets |-> 0],
     watchTotal |-> Undefined, shownFor |-> NoTarget, alerts |-> <<>>]
NewsIdle == news = NewsInit

\* animateNumber has not been called: the counter shows what the document
\* declares (NoCount).
NoCount == -1
StatInit == [target |-> NoCount, current |-> 0, live |-> FALSE, ticks |-> 0,
             text |-> NoCount]
StatIdle == stat = StatInit

Init ==
    /\ page = PageInit
    /\ streams = [k \in 1..MaxStreams |-> "unused"]
    /\ RunIdle
    /\ DecIdle
    /\ ScoIdle
    /\ HistIdle
    /\ GaugeIdle
    /\ NetIdle
    /\ NewsIdle
    /\ StatIdle

Next ==
    \/ \E k \in 1..MaxStreams, t \in Targets :
          RunInvestigation(k, t) /\ UNCHANGED <<runVars, decVars, scoVars, histVars, gaugeVars, netVars, newsVars, statVars>>
    \/ \E k \in 1..MaxStreams : FetchResolve(k) /\ UNCHANGED <<runVars, decVars, scoVars, histVars, gaugeVars, netVars, newsVars, statVars>>
    \/ \E k \in 1..MaxStreams : FetchReject(k) /\ UNCHANGED <<runVars, decVars, scoVars, histVars, gaugeVars, netVars, newsVars, statVars>>
    \/ \E k \in 1..MaxStreams, e \in StreamEvents :
          HandleEvent(k, e) /\ UNCHANGED <<runVars, decVars, scoVars, histVars, gaugeVars, netVars, newsVars, statVars>>
    \/ \E k \in 1..MaxStreams : ReadDone(k) /\ UNCHANGED <<runVars, decVars, scoVars, histVars, gaugeVars, netVars, newsVars, statVars>>
    \/ \E k \in 1..MaxStreams : ReadError(k) /\ UNCHANGED <<runVars, decVars, scoVars, histVars, gaugeVars, netVars, newsVars, statVars>>
    \/ \E inv \in PastRecords : LoadPast(inv) /\ UNCHANGED <<runVars, decVars, scoVars, histVars, gaugeVars, netVars, newsVars, statVars>>

Spec == Init /\ [][Next]_vars

----------------------------------------------------------------------------
(* Scripted streams: one live session whose stream carries a given event   *)
(* sequence.                                                               *)

Range(f) == {f[i] : i \in DOMAIN f}

RECURSIVE InjectiveSeqs(_, _)
\* The sequences of distinct elements of S of length at most n.
InjectiveSeqs(S, n) ==
    IF n = 0 THEN {<<>>}
    ELSE LET shorter == InjectiveSeqs(S, n - 1) IN
         shorter \cup
         {Append(pr[1], pr[2]) :
            pr \in {x \in {r \in shorter : Len(r) = n - 1} \X S :
                      x[2] \notin Range(x[1])}}

FinalEvent == EvComplete(890, "CRITICAL", "REJECT")

\* Completions of distinct specialists, in any order, then the final event.
SubsetScripts ==
    {[i \in 1..Len(q) |-> EvAgentComplete(q[i], 500, "F1")] \o <<FinalEvent>> :
        q \in InjectiveSeqs(Specialists, Cardinality(Specialists))}

\* The scores of the six specialists in the full run, in order of completion.
CanonScores == <<200, 300, 400, 500, 600, 900>>

\* The full run: started, a started/complete pair per specialist (in the
\* order q), the synthesis completion, the final event, stream_end.
CanonScript(q) ==
    <<EvStarted>>
    \o [i \in 1..(2 * Len(q)) |->
          IF i % 2 = 1 THEN EvAgentStarted(q[(i + 1) \div 2])
          ELSE EvAgentComplete(q[i \div 2], CanonScores[i \div 2], "F1")]
    \o <<EvAgentComplete(Synthesis, 890, "F1"), FinalEvent, EvStreamEnd>>

CanonScripts ==
    {CanonScript(q) :
        q \in {r \in InjectiveSeqs(Specialists, Cardinality(Specialists)) :
                 Len(r) = Cardinality(Specialists)}}

\* The values of proceed_recommendation a final event may carry: the four
\* of recMap, lower-case spellings, a value recMap does not hold, none, and
\* one that is not a string.
RecValues ==
    {"REJECT", "INVESTIGATE_FURTHER", "CONDITIONAL", "APPROVE",
     "reject", "approve", "MAYBE", "", NonStringRec}

\* A stream that carries the final event alone.
RecScripts == {<<EvComplete(890, "CRITICAL", r)>> : r \in RecValues}

\* A stream that repeats the completion of one specialist, once more than
\* there are agents.
RepeatScripts ==
    {[i \in 1..(TOTAL_AGENTS + 1) |-> EvAgentComplete("Entity Discovery", 500, "F1")]}

Scripts == SubsetScripts \cup CanonScripts \cup RecScripts \cup RepeatScripts

\* The next event of the script is parsed and passed to handleEvent.
ScriptedEvent ==
    /\ streams[1] = "open"
    /\ at < Len(script)
    /\ page' = handleEvent(page, script[at + 1])
    /\ at' = at + 1
    /\ UNCHANGED <<streams, script>>

\* The transport reports end-of-data after the last frame.
ScriptedDone ==
    /\ at = Len(script)
    /\ ReadDone(1)
    /\ UNCHANGED <<script, at>>

InitRun ==
    /\ page = PageInit
    /\ streams = [k \in 1..MaxStreams |-> "unused"]
    /\ script \in Scripts
    /\ at = 0
    /\ DecIdle
    /\ ScoIdle
    /\ HistIdle
    /\ GaugeIdle
    /\ NetIdle
    /\ NewsIdle
    /\ StatIdle

NextRun ==
    \/ \E t \in Targets :
          RunInvestigation(1, t) /\ UNCHANGED <<runVars, decVars, scoVars, histVars, gaugeVars, netVars, newsVars, statVars>>
    \/ FetchResolve(1) /\ UNCHANGED <<runVars, decVars, scoVars, histVars, gaugeVars, netVars, newsVars, statVars>>
    \/ ScriptedEvent /\ UNCHANGED <<decVars, scoVars, histVars, gaugeVars, netVars, newsVars, statVars>>
    \/ ScriptedDone /\ UNCHANGED <<decVars, scoVars, histVars, gaugeVars, netVars, newsVars, statVars>>

SpecRun == InitRun /\ [][NextRun]_vars

----------------------------------------------------------------------------
(* The frame decoder: the read loop of runInvestigation.  Text is a        *)
(* sequence of one-character strings; NL is the line feed.                 *)

NL == "\n"
Marker == <<"d", "a", "t", "a", ":", " ">>
Whitespace == {" ", "\r", "\t"}

RECURSIVE split(_)
\* buffer.split('\n'): the pieces between line feeds, at least one.
split(t) ==
    IF \A i \in 1..Len(t) : t[i] # NL THEN <<t>>
    ELSE LET i == CHOOSE j \in 1..Len(t) :
                    t[j] = NL /\ \A m \in 1..(j - 1) : t[m] # NL
         IN <<SubSeq(t, 1, i - 1)>> \o split(SubSeq(t, i + 1, Len(t)))

\* line.startsWith('data: ')
startsWith(line, m) == Len(line) >= Len(m) /\ SubSeq(line, 1, Len(m)) = m

RECURSIVE trim(_)
\* String.prototype.trim on the whitespace of this model.
trim(t) ==
    IF t = <<>> THEN t
    ELSE IF Head(t) \in Whitespace THEN trim(Tail(t))
    ELSE IF t[Len(t)] \in Whitespace THEN trim(SubSeq(t, 1, Len(t) - 1))
    ELSE t

\* The payloads of this model: '{' letter '}' stands for the JSON text of
\* one event object; every other text is not JSON.
PayloadEvent(letter) ==
    CASE letter = "s" -> EvStarted
      [] letter = "e" -> EvAgentStarted("Entity Discovery")
      [] letter = "c" -> EvAgentComplete("Entity Discovery", 900, "F1")
      [] letter = "y" -> EvAgentComplete(Synthesis, 890, "F1")
      [] letter = "n" -> EvAgentComplete(NoAgent, Undefined, "")
      [] letter = "f" -> FinalEvent
      [] letter = "z" -> EvStreamEnd
      [] OTHER -> EvOther

PayloadLetters == {"s", "e", "c", "y", "n", "f", "z", "h"}

\* JSON.parse(jsonStr) succeeds.
parses(j) == Len(j) = 3 /\ j[1] = "{" /\ j[3] = "}" /\ j[2] \in PayloadLetters

\* JSON.parse(jsonStr), when it succeeds.
JSONparse(j) == PayloadEvent(j[2])

\* Mutant: the marker is 'data:' alone, the space after it is not required.
lineEventsNoSpace(line) ==
    IF ~startsWith(line, <<"d", "a", "t", "a", ":">>) THEN <<>>
    ELSE LET jsonStr == trim(SubSeq(line, 6, Len(line))) IN
         IF jsonStr = <<>> THEN <<>>
         ELSE IF ~parses(jsonStr) THEN <<>>
         ELSE <<JSONparse(jsonStr)>>

\* The events the body of the for loop passes to handleEvent for one line:
\* none or one.
lineEvents(line) ==
    IF ~startsWith(line, Marker) THEN <<>>
    ELSE LET jsonStr == trim(SubSeq(line, Len(Marker) + 1, Len(line))) IN
         IF jsonStr = <<>> THEN <<>>
         ELSE IF ~parses(jsonStr) THEN <<>>
         ELSE <<JSONparse(jsonStr)>>

RECURSIVE linesEventsReversed(_)
\* Mutant: the lines of a chunk are handled last to first.
linesEventsReversed(lines) ==
    IF lines = <<>> THEN <<>>
    ELSE linesEventsReversed(Tail(lines)) \o lineEvents(Head(lines))

RECURSIVE linesEventsAbort(_)
\* Mutant: the try encloses the for loop, so a payload that fails to parse
\* ends the handling of the chunk's lines.
linesEventsAbort(lines) ==
    IF lines = <<>> THEN <<>>
    ELSE LET line == Head(lines) IN
         IF startsWith(line, Marker)
               /\ trim(SubSeq(line, Len(Marker) + 1, Len(line))) # <<>>
               /\ lineEvents(line) = <<>>
         THEN <<>>
         ELSE lineEvents(line) \o linesEventsAbort(Tail(lines))

RECURSIVE linesEvents(_)
\* The for loop over the complete lines of one chunk.
linesEvents(lines) ==
    IF lines = <<>> THEN <<>>
    ELSE lineEvents(Head(lines)) \o linesEvents(Tail(lines))

RECURSIVE applyEvents(_, _)
\* handleEvent on each event in turn (an exception inside handleEvent is
\* caught by the loop body and the loop goes on).
applyEvents(p, es) ==
    IF es = <<>> THEN p ELSE applyEvents(handleEvent(p, Head(es)), Tail(es))

\* lines.pop(): the last piece stays in the buffer.
popped(lines) == lines[Len(lines)]
front(lines) == SubSeq(lines, 1, Len(lines) - 1)

\* Mutant: the rest of the last line is dropped instead of kept.
nextBufferDropped(buf, chunk) == <<>>

\* The buffer after a chunk has been appended and split.
nextBuffer(buf, chunk) == popped(split(buf \o chunk))

\* One iteration of the while loop: reader.read() delivers the next n
\* characters; they are appended to the buffer, the complete lines are
\* processed in order and the rest is kept.
ReadChunk(n) ==
    /\ streams[1] = "open"
    /\ ~rdone
    /\ pos + n <= Len(text)
    /\ LET chunk == SubSeq(text, pos + 1, pos + n)
           lines == split(buffer \o chunk)
           es    == linesEvents(front(lines))
       IN /\ buffer' = nextBuffer(buffer, chunk)
          /\ handled' = handled \o es
          /\ page' = applyEvents(page, es)
          /\ midMarker' = (midMarker \/
                (buffer' # <<>> /\ Len(buffer') < Len(Marker)
                   /\ startsWith(buffer' \o SubSeq(text, pos + n + 1, Len(text)),
                                 Marker)))
    /\ pos' = pos + n
    /\ UNCHANGED <<streams, text, rdone>>

\* Mutant: the rest of the buffer is processed as a last line at the end.
atEndFlush(buf) == lineEvents(buf)

\* The events handled when reader.read() reports done: the loop is left by
\* break, the buffer is not looked at again.
atEnd(buf) == <<>>

\* reader.read() reports done after the last character: break, finally.
ReadEnd ==
    /\ ~rdone
    /\ pos = Len(text)
    /\ streams[1] = "open"
    /\ streams' = [streams EXCEPT ![1] = "settled"]
    /\ handled' = handled \o atEnd(buffer)
    /\ page' = finallyBlock(applyEvents(page, atEnd(buffer)))
    /\ rdone' = TRUE
    /\ UNCHANGED <<text, pos, buffer, midMarker>>

\* The lines a response body is made of in this model.
D(letter) == Marker \o <<"{", letter, "}">>
BodyLines ==
    {D("c"), D("f"), D("n"),
     Marker \o <<"{", "c">>,
     Marker,
     <<"d", "a", "t", "a", ":", "{", "c", "}">>,
     Marker \o <<" ", "{", "y", "}", "\r">>,
     <<>>}
BodyTails == {<<>>, D("f"), <<"d", "a">>}

RECURSIVE join(_)
\* Every line followed by a line feed.
join(ls) == IF ls = <<>> THEN <<>> ELSE Head(ls) \o <<NL>> \o join(Tail(ls))

Bodies ==
    {join(ls) \o tl :
        ls \in UNION {[1..n -> BodyLines] : n \in 0..MaxLines}, tl \in BodyTails}

InitDecode ==
    /\ page = PageInit
    /\ streams = [k \in 1..MaxStreams |-> "unused"]
    /\ RunIdle
    /\ text \in Bodies
    /\ pos = 0 /\ buffer = <<>> /\ handled = <<>> /\ rdone = FALSE
    /\ midMarker = FALSE
    /\ ScoIdle
    /\ HistIdle
    /\ GaugeIdle
    /\ NetIdle
    /\ NewsIdle
    /\ StatIdle

NextDecode ==
    \/ \E t \in Targets :
          RunInvestigation(1, t) /\ UNCHANGED <<runVars, decVars, scoVars, histVars, gaugeVars, netVars, newsVars, statVars>>
    \/ FetchResolve(1) /\ UNCHANGED <<runVars, decVars, scoVars, histVars, gaugeVars, netVars, newsVars, statVars>>
    \/ \E n \in 1..Len(text) : ReadChunk(n) /\ UNCHANGED <<runVars, scoVars, histVars, gaugeVars, netVars, newsVars, statVars>>
    \/ ReadEnd /\ UNCHANGED <<runVars, scoVars, histVars, gaugeVars, netVars, newsVars, statVars>>

SpecDecode == InitDecode /\ [][NextDecode]_vars

\* The events of the newline-terminated payload lines of a whole text.
framesOf(t) == linesEvents(front(split(t)))

\* C1: for every way of splitting the stream into chunks, the events passed
\* to handleEvent are those of the newline-terminated payload lines of the
\* text delivered so far, in order, each once; the unterminated rest is the
\* buffer.
C1_ChunkingInvariant ==
    /\ handled = framesOf(SubSeq(text, 1, pos))
    /\ buffer = popped(split(SubSeq(text, 1, pos)))

\* A stream that was split inside a marker has been read to its end and
\* delivered two events.
C1_Witness == rdone /\ midMarker /\ Len(handled) >= 2

----------------------------------------------------------------------------
(* Properties of the session state machine *)

\* The stream of the session started last.
IsCurrent(k) == streams[k] # "unused" /\ \A j \in (k + 1)..MaxStreams : streams[j] = "unused"

SpecialistCompletes ==
    {e \in StreamEvents : e.event = "agent_complete" /\ e.agent \in Specialists}

CompleteCards(p) == {c \in CardIds : p.indicator[c] = "complete"}

\* C2: applying agent_complete for the same specialist twice in a row leaves
\* the agent's record and the completed counter as applying it once does.
C2_DuplicateCompleteIdempotent ==
    (\E k \in 1..MaxStreams : streams[k] = "open") =>
        \A e \in SpecialistCompletes :
            LET once  == handleEvent(page, e)
                twice == handleEvent(once, e)
            IN /\ twice.indicator = once.indicator
               /\ twice.barScore = once.barScore
               /\ twice.findings = once.findings
               /\ twice.completedAgents = once.completedAgents

\* C3: in every reachable state the completed counter equals the number of
\* specialist cards whose status is complete (synthesis completions are not
\* counted).
C3_CounterEqualsCompleteCards ==
    page.completedAgents = Cardinality(CompleteCards(page))

\* C4: a session whose stream has ended without investigation_complete having
\* been handled is in the failed state, with the error surfaced.
C4_EndWhileRunningFails ==
    \A k \in 1..MaxStreams :
        (IsCurrent(k) /\ streams[k] = "settled" /\ page.statusText # "Complete")
            => (page.statusText = "Error" /\ "error" \in page.statusDot)

\* C5: after up to six agent_complete events for distinct specialists followed
\* by investigation_complete, the progress fraction is exactly 1 and the
\* phase is Complete.
C5_SubsetThenCompleteIsFull ==
    (script \in SubsetScripts /\ at = Len(script)) =>
        (page.progress[1] = page.progress[2] /\ page.statusText = "Complete")

\* C6: after the full run the phase is Complete, the completed count is 6 and
\* the final report carries the payload's overall score 8.9.
C6_CanonicalRunFinalState ==
    (script \in CanonScripts /\ at = Len(script) /\ streams[1] = "settled") =>
        /\ page.statusText = "Complete"
        /\ page.completedAgents = 6
        /\ page.lastData.overall_risk_score = 890

----------------------------------------------------------------------------
(* Loading a stored record, for every stored overall score *)

StoredScores == (0..SCORE_TOP) \cup {Undefined}

StoredRecord(sc) ==
    [target_name |-> "Acme", overall_risk_score |-> sc, risk_level |-> "HIGH",
     agent_findings |-> <<"Entity Discovery", Synthesis>>]

\* A click on the history card of the record with the score under test.
LoadScored ==
    /\ page.lastData.kind = "none"
    /\ LoadPast(StoredRecord(score))
    /\ UNCHANGED score

InitScore ==
    /\ page = PageInit
    /\ streams = [k \in 1..MaxStreams |-> "unused"]
    /\ RunIdle
    /\ DecIdle
    /\ HistIdle
    /\ GaugeIdle
    /\ NetIdle
    /\ NewsIdle
    /\ StatIdle
    /\ score \in StoredScores

NextScore == LoadScored /\ UNCHANGED <<runVars, decVars, histVars, gaugeVars, netVars, newsVars, statVars>>

SpecScore == InitScore /\ [][NextScore]_vars

Loaded == page.lastData.kind = "past" /\ score # Undefined

\* C7: the recommendation of a loaded record is the function of its overall
\* score with the thresholds 7.5, 5.0, 2.5, boundary values in the higher tier.
C7_RecommendationThresholds ==
    Loaded =>
        LET rec == page.lastData.proceed_recommendation IN
        /\ (score >= 750) = (rec = "REJECT")
        /\ (score >= 500 /\ score < 750) = (rec = "INVESTIGATE_FURTHER")
        /\ (score >= 250 /\ score < 500) = (rec = "CONDITIONAL")
        /\ (score < 250) = (rec = "APPROVE")

\* The record with score exactly 7.5 has been loaded and shows REJECT.
C7_Witness ==
    Loaded /\ score = 750 /\ page.lastData.proceed_recommendation = "REJECT"

ColourTier(c) ==
    CASE c = "green" -> 1 [] c = "yellow" -> 2 [] c = "orange" -> 3 [] c = "red" -> 4

RecommendationTier(r) ==
    CASE r = "APPROVE" -> 1 [] r = "CONDITIONAL" -> 2
      [] r = "INVESTIGATE_FURTHER" -> 3 [] r = "REJECT" -> 4

\* C8: for a loaded record the colour tier of its score (the gauge's final
\* colour) and the derived recommendation are the same tier.
C8_ColourMatchesRecommendation ==
    Loaded =>
        ColourTier(riskColor(page.gauge))
            = RecommendationTier(page.lastData.proceed_recommendation)

\* The record with score exactly 2.5 has been loaded: yellow and CONDITIONAL.
C8_Witness ==
    Loaded /\ score = 250 /\ riskColor(page.gauge) = "yellow"
        /\ page.lastData.proceed_recommendation = "CONDITIONAL"

----------------------------------------------------------------------------
(* The history list and its controller: multi-select and compare           *)

\* List fetches in flight; the exploration keeps at most MaxPending of them.
Room(n) == pending.history + pending.compare + n <= MaxPending

\* The stored record with a given id.
RecordOf(id) ==
    [target_name |-> "Acme", overall_risk_score |-> 250 * id, risk_level |-> "HIGH",
     agent_findings |-> <<"Entity Discovery", Synthesis>>]

\* toggleSelectMode(on), without its call of loadHistory.
toggleSelectMode(c, on) ==
    [c EXCEPT !.selectMode = on,
              !.selectedIds = {},
              !.btnSelect = ~on,
              !.btnDelete = on,
              !.btnCancel = on,
              !.selectedCount = 0]

\* The three display assignments that restore the normal buttons.
normalButtons(c) ==
    [c EXCEPT !.btnCompare = TRUE, !.btnCancel = FALSE, !.btnSelect = TRUE]

\* selectModeBtn click
SelectModeClick ==
    /\ ctl.btnSelect
    /\ Room(1)
    /\ ctl' = toggleSelectMode(ctl, TRUE)
    /\ pending' = [pending EXCEPT !.history = @ + 1]
    /\ UNCHANGED <<grid, store>>

\* cancelSelectBtn click: both listeners, in the order they were added.
CancelClick ==
    /\ ctl.btnCancel
    /\ Room(IF ctl.compareMode THEN 2 ELSE 1)
    /\ LET c1 == toggleSelectMode(ctl, FALSE) IN
       IF c1.compareMode
       THEN /\ ctl' = normalButtons([c1 EXCEPT !.compareMode = FALSE,
                                               !.compareSelected = <<>>])
            /\ pending' = [pending EXCEPT !.history = @ + 2]
       ELSE /\ ctl' = c1
            /\ pending' = [pending EXCEPT !.history = @ + 1]
    /\ UNCHANGED <<grid, store>>

\* deleteSelectedBtn click, confirmed, with a non-empty selection: one DELETE
\* per selected id is sent and the handler awaits them all.
DeleteSelectedClick ==
    /\ ctl.btnDelete
    /\ ctl.selectedIds # {}
    /\ ~pending.bulkBusy
    /\ pending' = [pending EXCEPT !.bulk = ctl.selectedIds, !.bulkBusy = TRUE]
    /\ UNCHANGED <<ctl, grid, store>>

\* Every DELETE has succeeded: the handler resumes with toggleSelectMode(false).
BulkResolve ==
    /\ pending.bulkBusy
    /\ Room(1)
    /\ store' = SelectSeq(store, LAMBDA id : id \notin pending.bulk)
    /\ ctl' = toggleSelectMode(ctl, FALSE)
    /\ pending' = [pending EXCEPT !.bulk = {}, !.bulkBusy = FALSE, !.history = @ + 1]
    /\ UNCHANGED grid

\* A DELETE request fails: Promise.all rejects and the handler ends there.
BulkReject ==
    /\ pending.bulkBusy
    /\ pending' = [pending EXCEPT !.bulk = {}, !.bulkBusy = FALSE]
    /\ UNCHANGED <<ctl, grid, store>>

\* compareModeBtn click
CompareModeClick ==
    /\ ctl.btnCompare
    /\ Room(1)
    /\ ctl' = [ctl EXCEPT !.compareMode = TRUE,
                          !.compareSelected = <<>>,
                          !.compareInvestigations = <<>>,
                          !.btnCompare = FALSE,
                          !.btnCancel = TRUE,
                          !.btnSelect = FALSE]
    /\ pending' = [pending EXCEPT !.compare = @ + 1]
    /\ UNCHANGED <<grid, store>>

\* closeCompare click
CloseCompareClick ==
    /\ ctl.compareSection
    /\ Room(1)
    /\ ctl' = normalButtons([ctl EXCEPT !.compareSection = FALSE,
                                        !.compareMode = FALSE,
                                        !.compareSelected = <<>>])
    /\ pending' = [pending EXCEPT !.history = @ + 1]
    /\ UNCHANGED <<grid, store>>

\* loadHistory resumes with the server's list: the grid is rebuilt with the
\* handlers of the mode _selectMode has now.
HistoryResolve ==
    /\ pending.history > 0
    /\ pending' = [pending EXCEPT !.history = @ - 1]
    /\ grid' = IF store = <<>> THEN [kind |-> "empty", data |-> <<>>, selected |-> {}]
               ELSE [kind |-> IF ctl.selectMode THEN "select" ELSE "normal",
                     data |-> store, selected |-> {}]
    /\ UNCHANGED <<ctl, store>>

\* loadHistory's fetch fails: the catch leaves the cards as they are.
HistoryReject ==
    /\ pending.history > 0
    /\ pending' = [pending EXCEPT !.history = @ - 1]
    /\ UNCHANGED <<ctl, grid, store>>

\* loadHistoryForCompare resumes with the server's list (with fewer than two
\* records: the alert, and the mode is reset).
CompareResolve ==
    /\ pending.compare > 0
    /\ pending' = [pending EXCEPT !.compare = @ - 1]
    /\ IF Len(store) < 2
       THEN /\ ctl' = normalButtons([ctl EXCEPT !.compareMode = FALSE])
            /\ UNCHANGED grid
       ELSE /\ grid' = [kind |-> "compare", data |-> store, selected |-> {}]
            /\ ctl' = [ctl EXCEPT !.compareInvestigations = store]
    /\ UNCHANGED store

\* loadHistoryForCompare's fetch fails: the catch ignores it.
CompareReject ==
    /\ pending.compare > 0
    /\ pending' = [pending EXCEPT !.compare = @ - 1]
    /\ UNCHANGED <<ctl, grid, store>>

\* A click on a card built by loadHistory in select mode.
SelectCardClick(i) ==
    /\ grid.kind = "select"
    /\ i \in 1..Len(grid.data)
    /\ LET invId == grid.data[i]
           ids == IF invId \in ctl.selectedIds THEN ctl.selectedIds \ {invId}
                  ELSE ctl.selectedIds \cup {invId}
       IN /\ ctl' = [ctl EXCEPT !.selectedIds = ids,
                                !.selectedCount = Cardinality(ids)]
          /\ grid' = [grid EXCEPT !.selected =
                        IF invId \in ctl.selectedIds THEN @ \ {i} ELSE @ \cup {i}]
    /\ UNCHANGED <<store, pending>>

\* _compareSelected after the splice / push of the card's click handler.
togglePair(sel, idx) ==
    IF idx \in Range(sel) THEN SelectSeq(sel, LAMBDA x : x # idx)
    ELSE IF Len(sel) < 2 THEN Append(sel, idx)
    ELSE sel

\* The card classes after the same click.
togglePairClass(cls, sel, idx) ==
    IF idx \in Range(sel) THEN cls \ {idx}
    ELSE IF Len(sel) < 2 THEN cls \cup {idx}
    ELSE cls

\* _compareInvestigations[idx] is a record (not undefined).
Held(c, idx) == idx \in 1..Len(c.compareInvestigations)

\* showComparison(invA, invB) for the pair held by c: renderCompareCard
\* throws on an undefined record and the handler ends at that point.
showComparison(c) ==
    LET a == c.compareSelected[1]
        b == c.compareSelected[2]
        shown == [c EXCEPT !.compareSection = TRUE]
    IN IF ~Held(c, a) THEN shown
       ELSE IF ~Held(c, b)
       THEN [shown EXCEPT !.compareLeft = c.compareInvestigations[a]]
       ELSE normalButtons(
              [shown EXCEPT !.compareLeft = c.compareInvestigations[a],
                            !.compareRight = c.compareInvestigations[b],
                            !.compareMode = FALSE])

\* showComparison runs to its end, where it calls loadHistory.
Completes(c) ==
    Len(c.compareSelected) = 2 /\ Held(c, c.compareSelected[1])
        /\ Held(c, c.compareSelected[2])

\* A click on a card built by loadHistoryForCompare; idx is the card's index
\* in the list it was built from.
CompareCardClick(idx) ==
    /\ grid.kind = "compare"
    /\ idx \in 1..Len(grid.data)
    /\ LET c1 == [ctl EXCEPT !.compareSelected = togglePair(@, idx)] IN
       /\ Completes(c1) => Room(1)
       /\ grid' = [grid EXCEPT !.selected = togglePairClass(@, ctl.compareSelected, idx)]
       /\ ctl' = IF Len(c1.compareSelected) = 2 THEN showComparison(c1) ELSE c1
       /\ pending' = IF Completes(c1) THEN [pending EXCEPT !.history = @ + 1]
                     ELSE pending
    /\ UNCHANGED store

\* clearHistoryBtn click, confirmed: DELETE /investigations is sent.
ClearHistoryClick ==
    /\ ~pending.clear
    /\ pending' = [pending EXCEPT !.clear = TRUE]
    /\ UNCHANGED <<ctl, grid, store>>

\* The clear request succeeds: the handler resumes with loadHistory().
ClearResolve ==
    /\ pending.clear
    /\ Room(1)
    /\ store' = <<>>
    /\ pending' = [pending EXCEPT !.clear = FALSE, !.history = @ + 1]
    /\ UNCHANGED <<ctl, grid>>

\* The clear request fails: the catch ignores it.
ClearReject ==
    /\ pending.clear
    /\ pending' = [pending EXCEPT !.clear = FALSE]
    /\ UNCHANGED <<ctl, grid, store>>

\* A live investigation settles: the then() of its caller calls loadHistory().
InvestigationSettled ==
    /\ Room(1)
    /\ pending' = [pending EXCEPT !.history = @ + 1]
    /\ UNCHANGED <<ctl, grid, store>>

\* The page has just been loaded: the script's last lines have called
\* loadHistory(); the server holds any number of records.
InitHist ==
    /\ page = PageInit
    /\ streams = [k \in 1..MaxStreams |-> "unused"]
    /\ RunIdle
    /\ DecIdle
    /\ ScoIdle
    /\ GaugeIdle
    /\ NetIdle
    /\ NewsIdle
    /\ StatIdle
    /\ ctl = CtlInit
    /\ grid = GridInit
    /\ store \in {[i \in 1..n |-> i] : n \in 0..MaxRecords}
    /\ pending = [PendingInit EXCEPT !.history = 1]

histFrame == <<page, streams, runVars, decVars, scoVars, gaugeVars, netVars, newsVars, statVars>>

NextHist ==
    \/ SelectModeClick /\ UNCHANGED histFrame
    \/ CancelClick /\ UNCHANGED histFrame
    \/ DeleteSelectedClick /\ UNCHANGED histFrame
    \/ BulkResolve /\ UNCHANGED histFrame
    \/ BulkReject /\ UNCHANGED histFrame
    \/ CompareModeClick /\ UNCHANGED histFrame
    \/ CloseCompareClick /\ UNCHANGED histFrame
    \/ HistoryResolve /\ UNCHANGED histFrame
    \/ HistoryReject /\ UNCHANGED histFrame
    \/ CompareResolve /\ UNCHANGED histFrame
    \/ CompareReject /\ UNCHANGED histFrame
    \/ \E i \in 1..MaxRecords : SelectCardClick(i) /\ UNCHANGED histFrame
    \/ \E i \in 1..MaxRecords : CompareCardClick(i) /\ UNCHANGED histFrame
    \/ ClearHistoryClick /\ UNCHANGED histFrame
    \/ ClearResolve /\ UNCHANGED histFrame
    \/ ClearReject /\ UNCHANGED histFrame
    \/ InvestigationSettled /\ UNCHANGED histFrame

SpecHist == InitHist /\ [][NextHist]_vars

----------------------------------------------------------------------------
(* The compare controller alone: the page is loaded, the user works the    *)
(* compare, cancel and close controls and the compare cards, and the list  *)
(* fetches resolve or fail in any order.                                   *)

NextCompare ==
    \/ CancelClick /\ UNCHANGED histFrame
    \/ CompareModeClick /\ UNCHANGED histFrame
    \/ CloseCompareClick /\ UNCHANGED histFrame
    \/ HistoryResolve /\ UNCHANGED histFrame
    \/ HistoryReject /\ UNCHANGED histFrame
    \/ CompareResolve /\ UNCHANGED histFrame
    \/ CompareReject /\ UNCHANGED histFrame
    \/ \E i \in 1..MaxRecords : CompareCardClick(i) /\ UNCHANGED histFrame

SpecCompare == InitHist /\ [][NextCompare]_vars

----------------------------------------------------------------------------
(* Properties of the compare controller *)

\* The click of this step is on the compare card idx.
ClickOn(idx) ==
    grid.kind = "compare" /\ idx \in 1..Len(grid.data) /\ CompareCardClick(idx)

\* C9: in Compare mode a click on a third, not yet selected card while two
\* are selected changes nothing and emits nothing; a click on a selected card
\* removes it from the pair.
C9_ThirdClickIsNoOp ==
    [][\A idx \in 1..MaxRecords :
          /\ (ctl.compareMode /\ Len(ctl.compareSelected) = 2
                /\ idx \notin Range(ctl.compareSelected) /\ ClickOn(idx))
                => UNCHANGED <<ctl, grid, pending>>
          /\ (ctl.compareMode /\ idx \in Range(ctl.compareSelected) /\ ClickOn(idx))
                => idx \notin Range(ctl'.compareSelected)]_vars

\* C10: a click in Compare mode that brings the pair to two members shows the
\* comparison of the records of the two selected cards, in selection order,
\* and resets the mode; the comparison view is hidden only by its close
\* control.
C10_PairEmitsComparison ==
    /\ [][\A idx \in 1..MaxRecords :
            (ctl.compareMode /\ Len(ctl.compareSelected) < 2 /\ ClickOn(idx)
                /\ Len(ctl'.compareSelected) = 2)
            => /\ ctl'.compareSection
               /\ ctl'.compareLeft = grid.data[ctl'.compareSelected[1]]
               /\ ctl'.compareRight = grid.data[ctl'.compareSelected[2]]
               /\ ~ctl'.compareMode]_vars
    /\ [][(ctl.compareSection /\ ~ctl'.compareSection) => CloseCompareClick]_vars

----------------------------------------------------------------------------
(* The mode controls: the select, compare, cancel, delete-selected and     *)
(* close-compare controls, the cards of both selection modes, and the      *)
(* requests these issue.                                                   *)

NextModes ==
    \/ SelectModeClick /\ UNCHANGED histFrame
    \/ CancelClick /\ UNCHANGED histFrame
    \/ DeleteSelectedClick /\ UNCHANGED histFrame
    \/ BulkResolve /\ UNCHANGED histFrame
    \/ BulkReject /\ UNCHANGED histFrame
    \/ CompareModeClick /\ UNCHANGED histFrame
    \/ CloseCompareClick /\ UNCHANGED histFrame
    \/ HistoryResolve /\ UNCHANGED histFrame
    \/ HistoryReject /\ UNCHANGED histFrame
    \/ CompareResolve /\ UNCHANGED histFrame
    \/ CompareReject /\ UNCHANGED histFrame
    \/ \E i \in 1..MaxRecords : SelectCardClick(i) /\ UNCHANGED histFrame
    \/ \E i \in 1..MaxRecords : CompareCardClick(i) /\ UNCHANGED histFrame

\* The page has just been loaded and the server holds two records.
InitModes == InitHist /\ Len(store) = 2

SpecModes == InitModes /\ [][NextModes]_vars

----------------------------------------------------------------------------
(* Properties of the mode controls *)

\* C11: after any sequence of clicks on the mode controls, _selectMode and
\* _compareMode are never both true.
C11_ModesExclusive == ~(ctl.selectMode /\ ctl.compareMode)

\* The bulk-delete handler ends in this step, by either outcome of its await.
BulkEnds == pending.bulkBusy /\ ~pending'.bulkBusy

\* C20: a confirmed bulk delete sends one removal request per selected id,
\* and whenever its handler ends the controller is in Normal mode with an
\* empty selection and a list fetch has been issued.
C20_BulkDeleteReturnsToNormal ==
    /\ [][(DeleteSelectedClick /\ pending'.bulkBusy) => pending'.bulk = ctl.selectedIds]_vars
    /\ [][BulkEnds => /\ ~ctl'.selectMode
                      /\ ctl'.selectedIds = {}
                      /\ pending'.history = pending.history + 1]_vars

----------------------------------------------------------------------------
(* Sessions that follow one another *)

\* The page shows a stored record: loadPastInvestigation ran after every
\* runInvestigation call and every investigation_complete so far.
PastShown == page.lastData.kind = "past" /\ page.recVisible

\* Stream k belongs to an earlier session: a later runInvestigation call or a
\* later loadPastInvestigation has started a new one.
Stale(k) == streams[k] = "open" /\ (~IsCurrent(k) \/ PastShown)

\* The session state a stream event may write.
SessionState(p) ==
    <<p.completedAgents, p.indicator, p.cardClass, p.barScore, p.findings,
      p.progress, p.lastData, p.badge, p.recCls, p.recVisible, p.gauge>>

\* C12: once a new session has started, an event read from the stream of an
\* earlier session leaves the completed counter, the agent cards, the
\* progress, the final report and the gauge as they are.
C12_StaleEventsDiscarded ==
    [][((\A k \in 1..MaxStreams : streams[k] = "open" => Stale(k))
          /\ \E k \in 1..MaxStreams, e \in StreamEvents : HandleEvent(k, e))
        => SessionState(page') = SessionState(page)]_vars

----------------------------------------------------------------------------
(* The gauge animator: setGauge and the intervals it starts.  Every call   *)
(* starts an interval of its own with a period of 25 ms; the handle is a   *)
(* local of the call, so only the interval's own callback can clear it.    *)
(* timers holds the live intervals in the order in which they fire within  *)
(* one period: those that have fired in the current period (due = FALSE),  *)
(* then those still due.  The specifications of the session leave the      *)
(* animation aside; this one follows it tick by tick.                      *)

MaxTimers == 2
GAUGE_STEPS == 40

\* The ticks counted for an interval that never ends; NaN stands for the
\* text 'NaN' of the riskScore element.
MaxTicks == 41
NaN == -3

\* current.toFixed(1), on hundredths.
toFixed1(x) == ((x + 5) \div 10) * 10

\* setGauge(score): a new interval with current = 0; its first tick comes
\* one period from now, after the next tick of every live interval.  It is
\* the latest animation of the displayed score.
setGauge(ts, sc) ==
    LET fired == SelectSeq(ts, LAMBDA t : ~t.due)
        due   == SelectSeq(ts, LAMBDA t : t.due)
        old(q) == [i \in 1..Len(q) |-> [q[i] EXCEPT !.latest = FALSE]]
    IN old(fired) \o <<[score |-> sc, n |-> 0, due |-> FALSE, latest |-> TRUE]>>
          \o old(due)

\* When every live interval has fired, the next period begins.
nextPeriod(ts) ==
    IF \A i \in 1..Len(ts) : ~ts[i].due
    THEN [i \in 1..Len(ts) |-> [ts[i] EXCEPT !.due = TRUE]]
    ELSE ts

\* The interval that fires next.
FirstDue == CHOOSE i \in 1..Len(timers) :
                timers[i].due /\ \A j \in 1..(i - 1) : ~timers[j].due

\* current >= score after the tick that makes the count n (step = score / 40,
\* in exact arithmetic).  With a missing score step and current are NaN and
\* the comparison is false.
reached(t, n) == t.score # Undefined /\ n * t.score >= GAUGE_STEPS * t.score

\* The value the tick writes.
tickValue(t, n) == IF reached(t, n) THEN t.score ELSE (n * t.score) \div GAUGE_STEPS

\* One callback of an interval: current += step, clamp and clearInterval at
\* the target, write the text.
Tick ==
    /\ timers # <<>>
    /\ LET i == FirstDue
           t == timers[i]
           n == t.n + 1
           rest == [j \in 1..(Len(timers) - 1) |->
                       IF j < i THEN timers[j] ELSE timers[j + 1]]
       IN /\ riskScore' = IF t.score = Undefined THEN NaN
                          ELSE toFixed1(tickValue(t, n))
          /\ timers' = nextPeriod(
                IF reached(t, n) THEN rest
                ELSE [timers EXCEPT ![i] = [t EXCEPT !.n = Min(n, MaxTicks),
                                                    !.due = FALSE]])
    /\ UNCHANGED <<page, streams>>

\* The overall scores the final events and the stored records carry here.
GaugeScores == {0, 890}

\* runInvestigation(target) up to its fetch: resetAgents writes '--'.
GaugeRun(t) ==
    /\ RunInvestigation(1, t)
    /\ riskScore' = Dashes
    /\ UNCHANGED timers

\* investigation_complete is handled: showFinalResults calls setGauge.
GaugeComplete(sc) ==
    /\ Len(timers) < MaxTimers
    /\ HandleEvent(1, EvComplete(sc, "CRITICAL", "REJECT"))
    /\ timers' = nextPeriod(setGauge(timers, sc))
    /\ UNCHANGED riskScore

\* A history card is clicked: resetAgents writes '--', showFinalResults
\* calls setGauge.
GaugeLoadPast(inv) ==
    /\ Len(timers) < MaxTimers
    /\ LoadPast(inv)
    /\ riskScore' = Dashes
    /\ timers' = nextPeriod(setGauge(timers, OrZero(inv.overall_risk_score)))

GaugeRecords ==
    {r \in PastRecords : r.agent_findings = <<>>}
    \cup {StoredRecord(sc) : sc \in GaugeScores}

InitGauge == Init

gaugeFrame == <<runVars, decVars, scoVars, histVars, netVars, newsVars, statVars>>

NextGauge ==
    \/ \E t \in Targets : GaugeRun(t) /\ UNCHANGED gaugeFrame
    \/ FetchResolve(1) /\ UNCHANGED <<gaugeFrame, gaugeVars, netVars, newsVars, statVars>>
    \/ \E sc \in GaugeScores : GaugeComplete(sc) /\ UNCHANGED gaugeFrame
    \/ \E inv \in GaugeRecords : GaugeLoadPast(inv) /\ UNCHANGED gaugeFrame
    \/ Tick /\ UNCHANGED gaugeFrame

SpecGauge == InitGauge /\ [][NextGauge]_vars

\* The tick of this step belongs to an animation that a later setGauge call
\* has superseded.
SupersededTick == timers # <<>> /\ ~timers[FirstDue].latest /\ Tick

\* C15: once setGauge has been called again, no tick of the earlier
\* animation writes the displayed score, and when every animation has ended
\* the displayed score is the latest target.
C15_LatestTargetWins ==
    /\ [][SupersededTick => riskScore' = riskScore]_vars
    /\ [](timers = <<>> /\ page.gauge # Undefined => riskScore = toFixed1(page.gauge))

----------------------------------------------------------------------------
(* Properties of the read loop *)

\* The complete lines of a text that carry a payload that parses.
payloadLines(t) == SelectSeq(front(split(t)), LAMBDA l : lineEvents(l) # <<>>)

\* Their events, in the order of the lines in the text.
eventsInOrder(t) ==
    [i \in 1..Len(payloadLines(t)) |-> lineEvents(payloadLines(t)[i])[1]]

IsPrefix(a, b) == Len(a) <= Len(b) /\ a = SubSeq(b, 1, Len(a))

\* The page of a stream that has handled the events es one after the other,
\* each on the state the one before it left.
AppliedInTurn(es) ==
    \E t \in Targets :
        LET p == applyEvents(started(PageInit, t), es) IN
        page = IF rdone THEN finallyBlock(p) ELSE p

Reading == streams[1] \in {"open", "settled"}

\* C13: the events handled so far are a prefix of the events of the body's
\* payload lines in the order of the body, and the page is the result of
\* applying them one at a time in that order.
C13_ArrivalOrder ==
    /\ IsPrefix(handled, eventsInOrder(text))
    /\ Reading => AppliedInTurn(handled)

\* Two different events that arrived in this order have been handled.
C13_Witness ==
    /\ Len(handled) = 2 /\ handled[1] # handled[2]
    /\ page # applyEvents(started(PageInit, page.targetName), <<handled[2], handled[1]>>)

\* The line carries a payload that does not parse.
malformed(l) ==
    /\ startsWith(l, Marker)
    /\ trim(SubSeq(l, Len(Marker) + 1, Len(l))) # <<>>
    /\ ~parses(trim(SubSeq(l, Len(Marker) + 1, Len(l))))

\* The complete lines delivered so far.
delivered == front(split(SubSeq(text, 1, pos)))

\* C14: a payload line that does not parse changes nothing; the events
\* handled and the page are those of the delivered lines without the
\* malformed ones, so every well-formed payload line after a malformed one is
\* applied.
C14_MalformedDropped ==
    LET good == SelectSeq(delivered, LAMBDA l : ~malformed(l))
        es == [i \in 1..Len(payloadLines(join(good))) |->
                  JSONparse(trim(SubSeq(payloadLines(join(good))[i], Len(Marker) + 1,
                                        Len(payloadLines(join(good))[i]))))]
    IN /\ handled = es
       /\ Reading => AppliedInTurn(es)

\* A malformed payload line has been delivered and the line after it has been
\* handled.
C14_Witness ==
    /\ Len(delivered) = 2
    /\ malformed(delivered[1])
    /\ handled = lineEvents(delivered[2])
    /\ Len(handled) = 1

----------------------------------------------------------------------------
(* Properties of the recommendation shown *)

RecMapKeys == {"REJECT", "INVESTIGATE_FURTHER", "CONDITIONAL", "APPROVE"}

\* The class of the recMap entry of a key.
EntryCls(key) ==
    CASE key = "REJECT" -> "reject"
      [] key = "INVESTIGATE_FURTHER" -> "investigate"
      [] key = "CONDITIONAL" -> "conditional"
      [] key = "APPROVE" -> "approve"

\* C19: after the final event the recommendation is shown; it is the entry
\* of the value when that is one of the four keys, and the
\* INVESTIGATE_FURTHER entry for every other value.
C19_RecommendationLookup ==
    (script \in RecScripts /\ at = 1) =>
        LET rec == script[1].proceed_recommendation IN
        /\ page.recVisible
        /\ page.recCls = IF rec \in RecMapKeys THEN EntryCls(rec)
                         ELSE EntryCls("INVESTIGATE_FURTHER")

----------------------------------------------------------------------------
(* Properties of the session: failure, agent status, unknown agents *)

\* The current session has ended in the catch block.
Failed(k) == IsCurrent(k) /\ streams[k] = "settled" /\ page.statusText = "Error"

\* C16: a transport error marks the session failed (status Error, the dot
\* in its error state and no longer running), and a failed session shows no
\* rendered final report.
C16_FailedShowsNoReport ==
    /\ [][\A k \in 1..MaxStreams :
            (ReadError(k) \/ FetchReject(k))
            => /\ page'.statusText = "Error"
               /\ "error" \in page'.statusDot
               /\ "running" \notin page'.statusDot]_vars
    /\ [](\A k \in 1..MaxStreams : (Failed(k) /\ ~PastShown) => ~page.recVisible)

\* C17: agent_started for an agent whose status is complete leaves the
\* status complete.
C17_StatusMonotonic ==
    [][\A k \in 1..MaxStreams, a \in StreamAgents :
          (HasCard(a) /\ page.indicator[agentId(a)] = "complete"
              /\ HandleEvent(k, EvAgentStarted(a)))
          => page'.indicator[agentId(a)] = "complete"]_vars

\* The agent names of the streams that name neither a specialist nor the
\* synthesis agent.
UnknownAgents == StreamAgents \ (Specialists \cup {Synthesis, NoAgent})

\* C18: agent_started and agent_complete for an unknown agent leave the
\* completed counter, every agent card and the progress fraction unchanged.
C18_UnknownAgentIgnored ==
    [][\A k \in 1..MaxStreams, e \in StreamEvents :
          (e.agent \in UnknownAgents
              /\ e.event \in {"agent_started", "agent_complete"}
              /\ HandleEvent(k, e))
          => /\ page'.completedAgents = page.completedAgents
             /\ page'.indicator = page.indicator
             /\ page'.cardClass = page.cardClass
             /\ page'.barScore = page.barScore
             /\ page'.findings = page.findings
             /\ page'.progress = page.progress]_vars

----------------------------------------------------------------------------
(* Properties of entering Compare mode *)

\* The last list fetch of loadHistoryForCompare in flight settles in this
\* step, with a list or with a failure.
CompareSettles == pending.compare = 1 /\ pending'.compare = 0

\* C21: once the list fetch of Compare mode has settled, the controller is
\* in Compare mode only with at least two compare cards to select from; with
\* fewer records or a failed fetch the mode is reset.
C21_CompareNeedsTwoRecords ==
    [][CompareSettles =>
          (ctl'.compareMode => (grid'.kind = "compare" /\ Len(grid'.data) >= 2))]_vars

----------------------------------------------------------------------------
(* Properties of the start of a session *)

\* The specialists whose stored findings a record carries.
StoredAgents(inv) == {a \in Range(inv.agent_findings) : a # Synthesis /\ HasCard(a)}

\* C22: after a stored record has been loaded the session is shown neither
\* running nor failed, the progress bar is hidden, the report is shown, every
\* stored specialist result is a completion and no agent is running.
C22_PastRecordIsComplete ==
    [][\A inv \in PastRecords :
          LoadPast(inv)
          => /\ page'.statusText \notin {"Investigating...", "Error"}
             /\ "running" \notin page'.statusDot
             /\ ~page'.progressVisible
             /\ page'.recVisible
             /\ \A a \in StoredAgents(inv) : page'.indicator[agentId(a)] = "complete"
             /\ \A c \in CardIds : page'.indicator[c] # "running"]_vars

\* C23: right after runInvestigation has started a session the counter and
\* the cards are reset, no final report of an earlier session is kept for
\* export and no error state is shown; right after a stored record has been
\* loaded the report kept is that record's and the status indicator shows
\* neither running nor error.
C23_NoCarryOver ==
    /\ [][\A k \in 1..MaxStreams, t \in Targets :
            RunInvestigation(k, t)
            => /\ page'.completedAgents = 0
               /\ \A c \in CardIds : page'.indicator[c] = "waiting"
               /\ ~page'.recVisible
               /\ page'.lastData = NoData
               /\ "error" \notin page'.statusDot]_vars
    /\ [][\A inv \in PastRecords :
            LoadPast(inv)
            => /\ page'.lastData.kind = "past"
               /\ page'.lastData.target = inv.target_name
               /\ page'.statusDot = {}]_vars

----------------------------------------------------------------------------
(* Properties of the progress shown and of agent_thinking *)

\* The synthesis completion is among the events handled so far.
SynthesisRecorded ==
    \E i \in 1..at : script[i].event = "agent_complete" /\ script[i].agent = Synthesis

\* C29: after every event the progress fraction is the number of complete
\* specialists over six until the synthesis completion has been handled, and
\* 1 from then on.
C29_ProgressFraction ==
    (streams[1] = "open" /\ at >= 1) =>
        IF SynthesisRecorded THEN page.progress[1] = page.progress[2]
        ELSE page.progress[1] * VISIBLE_AGENTS
                = Cardinality(CompleteCards(page)) * page.progress[2]

ThinkingEvents == {e \in StreamEvents : e.event = "agent_thinking"}

\* C30: in every state of a session, handling agent_thinking leaves the
\* counter, the agent cards, the progress and the final report as they are,
\* and every event handled after it has the effect it has without it.
C30_ThinkingObservational ==
    (\E k \in 1..MaxStreams : streams[k] = "open") =>
        \A e \in ThinkingEvents :
            /\ SessionState(handleEvent(page, e)) = SessionState(page)
            /\ \A f \in StreamEvents :
                  SessionState(handleEvent(handleEvent(page, e), f))
                      = SessionState(handleEvent(page, f))

\* A thought of Entity Discovery is shown while the stream is open and the
\* agent is still running.
C30_Witness ==
    /\ streams[1] = "open"
    /\ page.thought["entity-discovery"]
    /\ page.indicator["entity-discovery"] = "running"
    /\ page.completedAgents = 1

----------------------------------------------------------------------------
(* Properties of the end of the stream and of the lines skipped *)

\* C27: once the end of the data has been signalled, the events handled and
\* the page are those of the newline-terminated payload lines of the whole
\* body, and the text after the last line feed is still in the buffer: it
\* was never passed to handleEvent, whatever it holds.
C27_LeftoverDiscarded ==
    rdone => /\ buffer = popped(split(text))
             /\ handled = eventsInOrder(text)
             /\ AppliedInTurn(eventsInOrder(text))

\* The stream ended with a well-formed payload that had no line feed after
\* it, after an event had been handled.
C27_Witness ==
    /\ rdone
    /\ lineEvents(buffer) # <<>>
    /\ Len(handled) >= 1

\* The line does not begin with 'data:' and a space, or its payload is empty.
SkippedLine(l) ==
    \/ Len(l) < 6
    \/ <<l[1], l[2], l[3], l[4], l[5], l[6]>> # <<"d", "a", "t", "a", ":", " ">>
    \/ \A i \in 7..Len(l) : l[i] \in Whitespace

\* C28: the events handled and the page are those of the delivered lines
\* that begin with 'data:' and a space and carry a payload that parses; every
\* other line and every empty payload changes nothing, and the lines after
\* it are still decoded.
C28_OnlyPayloadLines ==
    LET good == SelectSeq(delivered,
                    LAMBDA l : ~SkippedLine(l) /\ parses(trim(SubSeq(l, 7, Len(l)))))
        es == [i \in 1..Len(good) |-> JSONparse(trim(SubSeq(good[i], 7, Len(good[i]))))]
    IN /\ handled = es
       /\ Reading => AppliedInTurn(es)

\* A line with the marker but no space after it was delivered and skipped,
\* and the payload line after it has been handled.
C28_Witness ==
    /\ Len(delivered) = 2
    /\ delivered[1] # <<>> /\ SkippedLine(delivered[1]) /\ ~startsWith(delivered[1], Marker)
    /\ ~SkippedLine(delivered[2])
    /\ Len(handled) = 1

----------------------------------------------------------------------------
(* The corporate network graph: renderNetworkGraph *)

MaxEntries == 2
DEFAULT_WIDTH == 700
MIN_HEIGHT == 320
ROW_HEIGHT == 30
RADIUS_PCT == 35

\* What an entry of subsidiaries or related_entities carries as its name.
EntryKinds == {"name", "entity_name", "none"}
ClientWidths == {0, 400}

\* The entity findings passed to renderNetworkGraph: whether primary_entity
\* has a name, the two lists, and the width of the container.
Findings ==
    {[named |-> b, subs |-> ss, related |-> rs, clientWidth |-> w] :
        b \in BOOLEAN,
        ss \in UNION {[1..n -> EntryKinds] : n \in 0..MaxEntries},
        rs \in UNION {[1..n -> EntryKinds] : n \in 0..MaxEntries},
        w \in ClientWidths}

Max(a, b) == IF a > b THEN a ELSE b

\* renderNetworkGraph(entityFinding) on the container state g.  Ids are
\* <<kind, index>>; the angle of a child is <<num, den>>, the fraction
\* num/den of a full turn (2*pi*i/N - pi/2 is (4i - N)/(4N) of a turn);
\* radius100 is the radius in hundredths of a pixel.
renderNetworkGraph(g, f) ==
    IF ~f.named /\ Len(f.subs) = 0
    THEN [g EXCEPT !.finding = f, !.calls = 1, !.display = "none",
                   !.nodes = <<>>, !.edges = <<>>,
                   !.width = 0, !.height = 0, !.radius100 = 0]
    ELSE
    LET label(k) == IF k = "none" THEN "default" ELSE k
        subNodes == [i \in 1..Len(f.subs) |->
                        [id |-> <<"sub", i - 1>>, type |-> "subsidiary",
                         label |-> label(f.subs[i])]]
        relNodes == [i \in 1..Len(f.related) |->
                        [id |-> <<"rel", i - 1>>, type |-> "related",
                         label |-> label(f.related[i])]]
        primaryNode == [id |-> <<"primary", 0>>, type |-> "primary",
                        label |-> IF f.named THEN "name" ELSE "Unknown"]
        childNodes == subNodes \o relNodes
        edges == [i \in 1..Len(childNodes) |->
                     [from |-> <<"primary", 0>>, to |-> childNodes[i].id]]
        N == Len(childNodes)
        width == IF f.clientWidth = 0 THEN DEFAULT_WIDTH ELSE f.clientWidth
        height == Max(MIN_HEIGHT, (N + 1) * ROW_HEIGHT)
        placed == [i \in 1..N |->
                      [id |-> childNodes[i].id, type |-> childNodes[i].type,
                       label |-> childNodes[i].label,
                       angle |-> <<4 * (i - 1) - N, 4 * N>>]]
    IN IF N = 0
       THEN [g EXCEPT !.finding = f, !.calls = 1, !.display = "block",
                      !.content = "placeholder",
                      !.nodes = <<primaryNode>>, !.edges = <<>>,
                      !.width = 0, !.height = 0, !.radius100 = 0]
       ELSE [g EXCEPT !.finding = f, !.calls = 1, !.display = "block",
                      !.content = "svg",
                      !.nodes = <<primaryNode>> \o placed, !.edges = edges,
                      !.width = width, !.height = height,
                      !.radius100 = RADIUS_PCT * Min(width, height)]

\* The showFinalResults hook calls renderNetworkGraph with the Entity
\* Discovery finding of the data shown.
RenderNetworkGraph(f) ==
    /\ network' = renderNetworkGraph(network, f)
    /\ UNCHANGED <<sessVars, runVars, decVars, scoVars, histVars, gaugeVars, newsVars, statVars>>

InitGraph == Init

NextGraph == \E f \in Findings : RenderNetworkGraph(f)

SpecGraph == InitGraph /\ [][NextGraph]_vars

Rendered == network.calls > 0

\* The children of the finding last rendered: subsidiaries, then related.
ChildCount == Len(network.finding.subs) + Len(network.finding.related)

Degenerate ==
    /\ ~network.finding.named
    /\ network.finding.subs = <<>>
    /\ network.finding.related = <<>>

\* C25: after a call the container is hidden if and only if the primary has
\* no name and both the subsidiary list and the related-entity list are
\* empty.
C25_SuppressedIffDegenerate ==
    Rendered => (network.display = "none" <=> Degenerate)

\* C24: unless the input is the degenerate one, a call produces one primary
\* node, one node per subsidiary and per related entity, and exactly one edge
\* per non-primary node, from the primary to it.
C24_StarTopology ==
    (Rendered /\ ~Degenerate) =>
        LET ns == network.nodes
            es == network.edges
        IN /\ Len(ns) = 1 + ChildCount
           /\ Cardinality({i \in 1..Len(ns) : ns[i].type = "primary"}) = 1
           /\ Cardinality({i \in 1..Len(ns) : ns[i].type = "subsidiary"})
                 = Len(network.finding.subs)
           /\ Cardinality({i \in 1..Len(ns) : ns[i].type = "related"})
                 = Len(network.finding.related)
           /\ Len(es) = ChildCount
           /\ \A i \in 1..Len(es) : es[i].from = <<"primary", 0>>
           /\ \A i \in 2..Len(ns) :
                 Cardinality({j \in 1..Len(es) : es[j].to = ns[i].id}) = 1

\* C26: for N >= 1 children the i-th child (0-based, subsidiaries first,
\* then related entities) is placed at the angle 2*pi*i/N - pi/2, the angles
\* are pairwise distinct, and the layout depends on the input only.
C26_CircularLayout ==
    (Rendered /\ ChildCount >= 1) =>
        LET N == ChildCount
            ns == network.nodes
            S == Len(network.finding.subs)
        IN /\ Len(ns) = N + 1
           /\ \A i \in 0..(N - 1) :
                 /\ ns[i + 2].type = IF i < S THEN "subsidiary" ELSE "related"
                 /\ ns[i + 2].angle[1] * 4 * N = (4 * i - N) * ns[i + 2].angle[2]
           /\ \A i, j \in 2..(N + 1) :
                 i # j => ((ns[i].angle[1] * ns[j].angle[2]
                              - ns[j].angle[1] * ns[i].angle[2])
                           % (ns[i].angle[2] * ns[j].angle[2])) # 0
           /\ network = renderNetworkGraph(NetworkInit, network.finding)

----------------------------------------------------------------------------
(* Properties of events that throw, of the counter and of the progress bar *)

\* handleEvent throws on the event: agentId(undefined).
Throws(e) == e.event \in {"agent_started", "agent_complete"} /\ e.agent = NoAgent

\* C34: an event on which handleEvent throws leaves the session state as it
\* was, the completed counter included.
C34_ThrowingEventChangesNothing ==
    [][\A k \in 1..MaxStreams : \A e \in StreamEvents :
          (Throws(e) /\ HandleEvent(k, e)) => page' = page]_vars

\* C35: the progress fraction is between 0 and 1 and completedAgents never
\* exceeds TOTAL_AGENTS, whatever events the stream carries.
C35_ProgressWithinBounds ==
    /\ 0 <= page.progress[1]
    /\ page.progress[1] <= page.progress[2]
    /\ page.completedAgents <= TOTAL_AGENTS

\* C36: no event handled in a live session sets the progress bar to a
\* smaller fraction than the one shown before it.
C36_ProgressNeverDecreases ==
    [][\A k \in 1..MaxStreams : \A e \in StreamEvents :
          (IsCurrent(k) /\ HandleEvent(k, e))
             => page'.progress[1] * page.progress[2]
                    >= page.progress[1] * page'.progress[2]]_vars

\* C32: once showComparison has shown a pair and reset the mode, a click on
\* a compare card that is still displayed changes neither the selected pair
\* nor the comparison, and starts no further reload of the list.
C32_ComparisonEmittedOnce ==
    [][\A idx \in 1..MaxRecords :
          (ctl.compareSection /\ ~ctl.compareMode /\ Len(ctl.compareSelected) = 2
              /\ ClickOn(idx))
          => UNCHANGED <<ctl, pending>>]_vars

----------------------------------------------------------------------------
(* Properties of the history grid under re-rendering *)

\* The records whose cards carry the class selected in the select grid.
ShownSelected ==
    IF grid.kind = "select" THEN {grid.data[i] : i \in grid.selected} ELSE {}

\* C33: in MultiSelect mode _selectedIds is the set of the records whose
\* cards are displayed as selected.
C33_SelectionMatchesCards ==
    ctl.selectMode => ctl.selectedIds = ShownSelected

\* The click behaviour the cards must carry in the controller's mode.
ModeKind ==
    IF ctl.compareMode THEN "compare"
    ELSE IF ctl.selectMode THEN "select" ELSE "normal"

\* C39: when a list fetch resolves and no list fetch is pending any more,
\* the cards displayed carry the click behaviour of the controller's mode.
C39_GridMatchesMode ==
    [][((HistoryResolve \/ CompareResolve)
           /\ pending'.history = 0 /\ pending'.compare = 0)
        => grid'.kind \in {ModeKind', "empty"}]_vars

----------------------------------------------------------------------------
(* runInvestigation with its caller: the chip and form handlers chain      *)
(* loadHistory() on the promise runInvestigation returns.                  *)

\* The events the streams of this specification carry: a completion, one on
\* which handleEvent throws, and the final event.
SettleEvents ==
    {EvAgentComplete("Entity Discovery", 900, "F1"),
     EvAgentComplete(NoAgent, Undefined, ""),
     FinalEvent}

\* runInvestigation's promise is fulfilled in this step: by the fetch
\* failing, by the end of the data or by a read failing.  The finally block
\* has run and the then() of the caller calls loadHistory().
Settle(k) ==
    /\ Room(1)
    /\ FetchReject(k) \/ ReadDone(k) \/ ReadError(k)
    /\ pending' = [pending EXCEPT !.history = @ + 1]
    /\ UNCHANGED <<ctl, grid, store>>

settleFrame == <<runVars, decVars, scoVars, gaugeVars, netVars, newsVars, statVars>>

InitSettle == Init

NextSettle ==
    \/ \E k \in 1..MaxStreams : \E t \in Targets :
          RunInvestigation(k, t) /\ UNCHANGED <<settleFrame, histVars>>
    \/ \E k \in 1..MaxStreams : FetchResolve(k) /\ UNCHANGED <<settleFrame, histVars>>
    \/ \E k \in 1..MaxStreams : \E e \in SettleEvents :
          HandleEvent(k, e) /\ UNCHANGED <<settleFrame, histVars>>
    \/ \E k \in 1..MaxStreams : Settle(k) /\ UNCHANGED settleFrame
    \/ HistoryResolve /\ UNCHANGED <<settleFrame, sessVars>>
    \/ HistoryReject /\ UNCHANGED <<settleFrame, sessVars>>

\* The transport of every stream ends or fails, and every list fetch is
\* answered.
SettleFairness ==
    /\ \A k \in 1..MaxStreams : WF_vars(Settle(k) /\ UNCHANGED settleFrame)
    /\ \A k \in 1..MaxStreams : WF_vars(FetchResolve(k) /\ UNCHANGED <<settleFrame, histVars>>)
    /\ WF_vars((HistoryResolve \/ HistoryReject) /\ UNCHANGED <<settleFrame, sessVars>>)

SpecSettle == InitSettle /\ [][NextSettle]_vars /\ SettleFairness

\* C37: every call of runInvestigation settles once its stream ends or
\* fails, and the step in which it settles enables the search button and
\* starts the reload of the history list.
C37_SettlesAndReloads ==
    /\ [][\A k \in 1..MaxStreams :
            (streams[k] # "settled" /\ streams'[k] = "settled")
               => /\ ~page'.searchDisabled
                  /\ pending'.history = pending.history + 1]_vars
    /\ \A k \in 1..MaxStreams :
          (streams[k] \in {"fetching", "open"}) ~> (streams[k] = "settled")

\* A stream has settled by a transport error after a completion was
\* handled; the button is enabled and the reload is in flight.
C37_Witness ==
    /\ streams[1] = "settled"
    /\ page.statusText = "Error"
    /\ page.completedAgents = 1
    /\ ~page.searchDisabled
    /\ pending.history = 1

----------------------------------------------------------------------------
(* The news watch: startNewsWatch, stopNewsWatch, checkForNews *)

MaxChecks == 2
MaxTotal == 2
MaxAlerts == 1

\* Requests of checkForNews that have not been answered.
InFlight(n) == n.inflight["Acme"] + n.inflight["Nexus Global Holdings"]

\* stopNewsWatch(): the interval _newsWatchInterval refers to is cleared.
stopNewsWatch(n) ==
    [n EXCEPT !.live = IF n.handle = 0 THEN @
                       ELSE SubSeq(@, 1, n.handle - 1) \o SubSeq(@, n.handle + 1, Len(@)),
              !.handle = 0,
              !.target = NoTarget]

\* startNewsWatch(target): stop, reset, the initial check is sent and the
\* polling interval is created.
startNewsWatch(n, t) ==
    LET s == stopNewsWatch(n) IN
    [s EXCEPT !.target = t,
              !.lastCount = 0,
              !.alerts = <<>>,
              !.inflight[t] = @ + 1,
              !.live = Append(@, t),
              !.handle = Len(s.live) + 1]

\* checkForNews(target) after its awaits, with the total the server sent.
checkForNews(n, t, total) ==
    [n EXCEPT !.inflight[t] = @ - 1,
              !.watchTotal = total,
              !.shownFor = t,
              !.alerts = IF n.lastCount > 0 /\ total > n.lastCount
                         THEN <<[target |-> t, diff |-> total - n.lastCount]>> \o @
                         ELSE @,
              !.lastCount = total]

\* The watch button is clicked for target t.
StartNewsWatch(t) ==
    /\ InFlight(news) < MaxChecks
    /\ news' = startNewsWatch(news, t)

\* The stop button is clicked.
StopNewsWatch == news' = stopNewsWatch(news)

\* A live interval fires: checkForNews is called with the target the
\* interval's callback captured.
PollTick(i) ==
    /\ i \in 1..Len(news.live)
    /\ InFlight(news) < MaxChecks
    /\ news' = [news EXCEPT !.inflight[news.live[i]] = @ + 1]

\* A request of checkForNews(t) is answered with a total.
CheckResolve(t, total) ==
    /\ news.inflight[t] > 0
    /\ (news.lastCount > 0 /\ total > news.lastCount) => Len(news.alerts) < MaxAlerts
    /\ news' = checkForNews(news, t, total)

\* A request of checkForNews(t) fails: the catch ignores it.
CheckReject(t) ==
    /\ news.inflight[t] > 0
    /\ news' = [news EXCEPT !.inflight[t] = @ - 1]

newsFrame == <<sessVars, runVars, decVars, scoVars, histVars, gaugeVars, netVars, statVars>>

InitNews == Init

NextNews ==
    \/ \E t \in WatchTargets : StartNewsWatch(t) /\ UNCHANGED newsFrame
    \/ StopNewsWatch /\ UNCHANGED newsFrame
    \/ \E i \in 1..Len(news.live) : PollTick(i) /\ UNCHANGED newsFrame
    \/ \E t \in WatchTargets : \E total \in 0..MaxTotal :
          CheckResolve(t, total) /\ UNCHANGED newsFrame
    \/ \E t \in WatchTargets : CheckReject(t) /\ UNCHANGED newsFrame

SpecNews == InitNews /\ [][NextNews]_vars

\* C38: at most one polling interval is live; a response for a target that
\* is not the watched one changes neither _lastNewsCount nor the counters
\* shown and raises no alert; and an alert is raised only by a response for
\* the watched target.
C38_NewsWatchIsolated ==
    /\ [](Len(news.live) <= 1)
    /\ [][\A t \in WatchTargets : \A total \in 0..MaxTotal :
            (t # news.target /\ CheckResolve(t, total))
               => /\ news'.lastCount = news.lastCount
                  /\ news'.watchTotal = news.watchTotal
                  /\ news'.alerts = news.alerts]_vars
    /\ [][Len(news'.alerts) > Len(news.alerts)
            => news'.alerts[1].target = news.target]_vars

----------------------------------------------------------------------------
(* The counter animators: animateNumber on a statistics counter, setGauge  *)
(* on the risk score.                                                      *)

ANIMATE_STEPS == 30
MaxCount == 31

\* The counts loadDataStats receives for an index.
StatCounts == {0, ANIMATE_STEPS, MaxCount}

\* The overall scores investigation_complete carries here: none, 0 and 8.9.
AnimScores == {Undefined, 0, 890}

\* Math.max(1, Math.ceil(target / 30))
animateStep(target) == Max(1, (target + ANIMATE_STEPS - 1) \div ANIMATE_STEPS)

\* loadDataStats has the count of an index: animateNumber(el, count) starts
\* an interval with current = 0.
AnimateNumber(count) ==
    /\ stat.target = NoCount
    /\ stat' = [stat EXCEPT !.target = count, !.current = 0, !.live = TRUE,
                            !.ticks = 0]

\* One callback of animateNumber's interval.
StatTick ==
    /\ stat.live
    /\ LET c == stat.current + animateStep(stat.target)
           done == c >= stat.target
           shown == IF done THEN stat.target ELSE c
       IN stat' = [stat EXCEPT !.current = shown, !.text = shown,
                               !.live = ~done, !.ticks = @ + 1]

statFrame == <<sessVars, runVars, decVars, scoVars, histVars, gaugeVars, netVars, newsVars>>

InitAnim == Init

NextAnim ==
    \/ \E t \in Targets : GaugeRun(t) /\ UNCHANGED gaugeFrame
    \/ FetchResolve(1) /\ UNCHANGED <<gaugeFrame, gaugeVars>>
    \/ \E sc \in AnimScores : GaugeComplete(sc) /\ UNCHANGED gaugeFrame
    \/ Tick /\ UNCHANGED gaugeFrame
    \/ \E n \in StatCounts : AnimateNumber(n) /\ UNCHANGED statFrame
    \/ StatTick /\ UNCHANGED statFrame

SpecAnim == InitAnim /\ [][NextAnim]_vars

\* C31: both animators end within a fixed number of ticks at the target: a
\* counter animation is live for fewer than 30 ticks, never shows more than
\* its target and shows the target once its interval is cleared; a gauge
\* animation is live for fewer than 40 ticks and the score it writes is a
\* number.
C31_AnimatorsTerminate ==
    /\ stat.live => stat.ticks < ANIMATE_STEPS
    /\ stat.target # NoCount => stat.current <= stat.target
    /\ (stat.target # NoCount /\ ~stat.live) => stat.text = stat.target
    /\ \A i \in 1..Len(timers) : timers[i].n < GAUGE_STEPS
    /\ riskScore # NaN

====
